---- MODULE Spec2Model ----
(***************************************************************************)
(* my_app (examples/demo/my_app.c): the periodic /var/log scan loop.       *)
(*                                                                         *)
(* The program is one sequential loop; pc is its position.  The filesystem *)
(* is not owned by the program: every system call draws its outcome from   *)
(* the set of outcomes the kernel can give at that moment (a path may be   *)
(* present, absent or denied at any call, and a log file may grow between  *)
(* two calls).  Variables below the program's own are observations of what *)
(* the program did (calls issued, lines printed); the program never reads  *)
(* them.                                                                   *)
(***************************************************************************)
EXTENDS Integers, Sequences, FiniteSets, TLC

\* ---------------------------------------------------------------- bounds
\* Largest number of real (non-pseudo) entries one enumeration returns.
MaxEntries == 6
\* Largest file size the kernel reports (sizes are 0..MaxSize).
MaxSize == 1
\* Iterations of the endless loop that are explored.
MaxIter == 2

\* ------------------------------------------------------ program constants
\* `count < 5` on line 72.
PrintLimit == 5
\* `char buf[1024]` on line 109.
BufSize == 1024

\* log_files[] with its NULL sentinel (lines 90-102); indices are 1-based
\* here, so C's log_files[i] is log_files[i + 1].
log_files ==
    << "/var/log/messages", "/var/log/secure", "/var/log/cron",
       "/var/log/maillog", "/var/log/boot.log", "/var/log/dmesg",
       "/var/log/audit/audit.log", "/var/log/yum.log", "/var/log/spooler",
       "/var/log/tuned/tuned.log", "NULL" >>

\* d_name of the k-th real entry readdir returns.
NamePool == << "e1", "e2", "e3", "e4", "e5", "e6", "e7", "e8" >>
d_name(k) == NamePool[k]

\* ------------------------------------------------ kernel answers (inputs)
Fail == [mode |-> "ENOENT", size |-> 0]
\* struct stat st before any call filled it (line 22).
Uninit == [mode |-> "uninit", size |-> 0]
\* The size is tracked for regular files only.
Attr(m, z) == [mode |-> m, size |-> z]
\* stat() follows symbolic links, so it never reports a link itself.
StatOutcomes ==
    {Fail, Attr("S_IFDIR", 0), Attr("S_IFCHR", 0)}
        \cup {Attr("S_IFREG", z) : z \in 0..MaxSize}
\* lstat() on a path stat() just answered with s: the path is a symbolic
\* link (S_IFLNK), or it is the object itself (same type; a regular file may
\* have been appended to in between), or the call is denied.
LstatOutcomes(s) ==
    {Fail, Attr("S_IFLNK", 0)}
        \cup (IF s.mode = "S_IFREG"
              THEN {Attr("S_IFREG", z) : z \in 0..MaxSize}
              ELSE IF s.mode \in {"S_IFDIR", "S_IFCHR"} THEN {s} ELSE {})
\* read(fd, buf, sizeof(buf)): an error, end of file, a short or a full read.
ReadOutcomes == {-1, 0, 1, BufSize}

\* ------------------------------------------------------ fixed filesystems
\* A filesystem that does not change while the scanner runs: whether
\* /var/log can be opened, what each of its entries is, and for each sample
\* path whether it can be opened and what one read of it returns.  readdir
\* lists ".", "..", then the entries in order.
EntryKinds == {"missing", "file", "linkdir"}
\* stat() of an entry of a kind: a dangling or denied path, a regular file,
\* a symbolic link to a directory.
StatOf(k) ==
    IF k = "file" THEN Attr("S_IFREG", MaxSize)
    ELSE IF k = "linkdir" THEN Attr("S_IFDIR", 0) ELSE Fail
\* lstat() of it.
LstatOf(k) ==
    IF k = "file" THEN Attr("S_IFREG", MaxSize)
    ELSE IF k = "linkdir" THEN Attr("S_IFLNK", 0) ELSE Fail
DirWorlds == UNION {[1..n -> EntryKinds] : n \in 0..MaxEntries}
\* Only /var/log/messages exists and is shorter than the buffer; or all ten
\* exist, the second cannot be read, the third is empty.
FileWorlds ==
    { [open |-> [k \in 1..10 |-> k = 1], read |-> [k \in 1..10 |-> 1]],
      [open |-> [k \in 1..10 |-> TRUE],
       read |-> [k \in 1..10 |->
                    IF k = 2 THEN -1 ELSE IF k = 3 THEN 0 ELSE BufSize]] }
Worlds ==
    {[fixed |-> TRUE, dirOK |-> TRUE, kinds |-> e, open |-> f.open,
      read |-> f.read] : e \in DirWorlds, f \in FileWorlds}
    \cup {[fixed |-> TRUE, dirOK |-> FALSE, kinds |-> << >>, open |-> f.open,
           read |-> f.read] : f \in FileWorlds}
\* No filesystem is fixed: every call may answer anything it can.
AnyWorld ==
    [fixed |-> FALSE, dirOK |-> TRUE, kinds |-> << >>,
     open |-> [k \in 1..10 |-> TRUE], read |-> [k \in 1..10 |-> 0]]

\* S_ISDIR / S_ISREG (lines 74, 76).
S_ISDIR(m) == m = "S_IFDIR"
S_ISREG(m) == m = "S_IFREG"
\* The kind printed for a mode (lines 74-80).
Kind(m) == IF S_ISDIR(m) THEN "directory" ELSE IF S_ISREG(m) THEN "file" ELSE "other"

\* Calls by the name and mode they are issued with.
OpenCall_RW == "open(O_RDWR)"
OpenCall == "open(O_RDONLY)"
AccessCall == "access(R_OK)"

VARIABLES
    pc,          \* position in main
    iteration,   \* int iteration (line 24)
    count,       \* int count (line 23)
    files_read,  \* int files_read (line 104), 0 when out of scope
    i,           \* loop index of line 105, 1-based; 0 when out of scope
    st,          \* struct stat st (line 22)
    dir,         \* DIR *dir: [open, pos, dot, dotdot]
    entry,       \* entry->d_name, or "NULL"
    fd,          \* int fd (line 107), -1 when none is open
    bytes,       \* ssize_t bytes (line 111), -2 when out of scope
    \* observations, per iteration
    ops,         \* filesystem calls issued in this iteration
    errLogged,   \* the ERROR line of line 44 was written
    enumerated,  \* names of the real entries readdir returned
    counted,     \* names for which count++ ran
    classified,  \* names whose stat() succeeded, until sampling begins
    printed,     \* names printed on line 73, until sampling begins
    closes,      \* closedir calls
    eof,         \* readdir returned NULL
    reported,    \* the number printed on line 86, -1 before
    attempted,   \* paths open() was called on
    filesReported, \* the number printed on line 117, -1 before
    sleeps,      \* sleep(10) calls
    opensOK,     \* open() calls that returned a descriptor
    \* observations, per sample path
    fileCalls,   \* calls issued for the current path: << call, argument >>
    \* the fixed-filesystem runs
    world,       \* the filesystem when it is held fixed, else AnyWorld
    lines,       \* lines printed on lines 73-80 in this iteration
    history,     \* what each finished iteration reported
    \* observations, per entry
    probes,      \* metadata calls issued for the current entry
    statRes,     \* what stat() answered for the current entry
    shown        \* the line printed for the current entry

vars == << pc, iteration, count, files_read, i, st, dir, entry, fd, bytes,
           ops, errLogged, enumerated, counted, classified, printed, closes,
           eof, reported, attempted, filesReported, sleeps, probes, statRes,
           shown, opensOK, fileCalls, world, lines, history >>

prog == << iteration, count, files_read, i, st, dir, entry, fd, bytes >>
iterObs == << errLogged, enumerated, counted, classified, printed, closes,
              eof, reported, attempted, filesReported, sleeps >>
entryObs == << probes, statRes, shown >>
sampleObs == << opensOK, fileCalls >>
replay == << world, lines, history >>

NullDir == [open |-> FALSE, pos |-> 0, dot |-> FALSE, dotdot |-> FALSE]
NoLine == [name |-> "NULL", kind |-> "none", size |-> 0]
NoStat == [mode |-> "none", size |-> 0]

\* What the calls can answer now: anything, or what the fixed filesystem
\* holds for the entry at the handle's position / the sample path i.
OpendirAnswers == IF world.fixed THEN {world.dirOK} ELSE BOOLEAN
StatAnswers ==
    IF world.fixed THEN {StatOf(world.kinds[dir.pos])} ELSE StatOutcomes
LstatAnswers ==
    IF world.fixed THEN {LstatOf(world.kinds[dir.pos])}
    ELSE LstatOutcomes(statRes)
OpenAnswers == IF world.fixed THEN {world.open[i]} ELSE BOOLEAN
ReadAnswers == IF world.fixed THEN {world.read[i]} ELSE ReadOutcomes
\* The listing order of a fixed filesystem.
PseudoNow(n) == world.fixed => (dir.pos = 0 /\ (n = ".." => dir.dot))
EntryNow == world.fixed => (dir.dot /\ dir.dotdot /\ dir.pos < Len(world.kinds))
EndNow == world.fixed => dir.pos = Len(world.kinds)
\* Observations of the fixed-filesystem runs are kept only in those runs.
Kept(old, new) == IF world.fixed THEN new ELSE old
\* What a finished iteration reported.
Summary ==
    [err |-> errLogged, lines |-> lines, entries |-> reported,
     files |-> filesReported]

InitProg ==
    /\ pc = "top"
    /\ iteration = 0
    /\ count = 0
    /\ files_read = 0
    /\ i = 0
    /\ st = Uninit
    /\ dir = NullDir
    /\ entry = "NULL"
    /\ fd = -1
    /\ bytes = -2
    /\ ops = {}
    /\ errLogged = FALSE
    /\ enumerated = << >>
    /\ counted = << >>
    /\ classified = << >>
    /\ printed = << >>
    /\ closes = 0
    /\ eof = FALSE
    /\ reported = -1
    /\ attempted = << >>
    /\ filesReported = -1
    /\ sleeps = 0
    /\ probes = << >>
    /\ statRes = NoStat
    /\ shown = NoLine
    /\ opensOK = 0
    /\ fileCalls = << >>
    /\ lines = << >>
    /\ history = << >>

\* The filesystem may change under the scanner at any call.
Init == InitProg /\ world = AnyWorld

\* The filesystem is one of the fixed ones and stays as it is.
InitStatic == InitProg /\ world \in Worlds

\* ------------------------------------------------------------ loop head
\* Line 35: the condition of while (1).
LoopCond == TRUE

\* Line 125: return 0, reached when the loop condition is false.
Return ==
    /\ pc' = "returned"
    /\ UNCHANGED << prog, ops, iterObs, entryObs >>
    /\ UNCHANGED sampleObs
    /\ UNCHANGED replay

\* Lines 36-41: iteration++ and the banner; a new iteration's observations
\* start empty.
Iterate ==
    /\ iteration' = iteration + 1
    /\ pc' = "opendir"
    /\ ops' = {}
    /\ errLogged' = FALSE
    /\ enumerated' = << >>
    /\ counted' = << >>
    /\ classified' = << >>
    /\ printed' = << >>
    /\ closes' = 0
    /\ eof' = FALSE
    /\ reported' = -1
    /\ attempted' = << >>
    /\ filesReported' = -1
    /\ sleeps' = 0
    /\ UNCHANGED << count, files_read, i, st, dir, entry, fd, bytes, entryObs >>
    /\ opensOK' = 0
    /\ UNCHANGED fileCalls
    /\ lines' = << >>
    /\ UNCHANGED << world, history >>

\* Lines 35-41: the loop condition, iteration++ and the iteration banner.
LoopTop ==
    /\ pc = "top"
    /\ iteration < MaxIter
    /\ IF LoopCond THEN Iterate ELSE Return

\* An opendir after which count is not set back to 0.
OpendirOK_NoReset ==
    /\ pc = "opendir"
    /\ TRUE \in OpendirAnswers
    /\ ops' = ops \cup {"opendir"}
    /\ dir' = [open |-> TRUE, pos |-> 0, dot |-> FALSE, dotdot |-> FALSE]
    /\ pc' = "readdir"
    /\ UNCHANGED << iteration, count, files_read, i, st, entry, fd, bytes,
                    iterObs, entryObs, sampleObs, replay >>

\* Lines 42-43, 48-52: opendir succeeds; count = 0.
OpendirOK ==
    /\ pc = "opendir"
    /\ TRUE \in OpendirAnswers
    /\ ops' = ops \cup {"opendir"}
    /\ dir' = [open |-> TRUE, pos |-> 0, dot |-> FALSE, dotdot |-> FALSE]
    /\ count' = 0
    /\ pc' = "readdir"
    /\ UNCHANGED << iteration, files_read, i, st, entry, fd, bytes, iterObs, entryObs >>
    /\ UNCHANGED sampleObs
    /\ UNCHANGED replay

\* A failed opendir that falls through to the report of line 86.
OpendirFail_NoContinue ==
    /\ pc = "opendir"
    /\ FALSE \in OpendirAnswers
    /\ ops' = ops \cup {"opendir"}
    /\ dir' = NullDir
    /\ errLogged' = TRUE
    /\ pc' = "report"
    /\ UNCHANGED << iteration, count, files_read, i, st, entry, fd, bytes,
                    enumerated, counted, classified, printed, closes, eof,
                    reported, attempted, filesReported, sleeps, entryObs >>
    /\ UNCHANGED sampleObs
    /\ UNCHANGED replay

\* A failed opendir that takes its iteration back out of the counter.
OpendirFail_Uncounted ==
    /\ pc = "opendir"
    /\ FALSE \in OpendirAnswers
    /\ ops' = ops \cup {"opendir"}
    /\ dir' = NullDir
    /\ errLogged' = TRUE
    /\ iteration' = iteration - 1
    /\ pc' = "sleep_err"
    /\ UNCHANGED << count, files_read, i, st, entry, fd, bytes,
                    enumerated, counted, classified, printed, closes, eof,
                    reported, attempted, filesReported, sleeps, entryObs,
                    sampleObs >>
    /\ UNCHANGED replay

\* A failed opendir that ends the program.
OpendirFail_Exit ==
    /\ pc = "opendir"
    /\ FALSE \in OpendirAnswers
    /\ ops' = ops \cup {"opendir"}
    /\ dir' = NullDir
    /\ errLogged' = TRUE
    /\ pc' = "returned"
    /\ UNCHANGED << iteration, count, files_read, i, st, entry, fd, bytes,
                    enumerated, counted, classified, printed, closes, eof,
                    reported, attempted, filesReported, sleeps, entryObs >>
    /\ UNCHANGED sampleObs
    /\ UNCHANGED replay

\* Lines 42-44: opendir returns NULL; the error is written to stderr.
OpendirFail ==
    /\ pc = "opendir"
    /\ FALSE \in OpendirAnswers
    /\ ops' = ops \cup {"opendir"}
    /\ dir' = NullDir
    /\ errLogged' = TRUE
    /\ pc' = "sleep_err"
    /\ UNCHANGED << iteration, count, files_read, i, st, entry, fd, bytes,
                    enumerated, counted, classified, printed, closes, eof,
                    reported, attempted, filesReported, sleeps, entryObs >>
    /\ UNCHANGED sampleObs
    /\ UNCHANGED replay

\* A continue without the sleep.
SleepErr_NoSleep ==
    /\ pc = "sleep_err"
    /\ pc' = "top"
    /\ UNCHANGED << prog, ops, iterObs, entryObs >>
    /\ UNCHANGED sampleObs
    /\ UNCHANGED replay

\* Lines 45-46: sleep(10); continue.
SleepErr ==
    /\ pc = "sleep_err"
    /\ sleeps' = sleeps + 1
    /\ pc' = "top"
    /\ UNCHANGED << prog, ops, errLogged, enumerated, counted, classified, printed,
                    closes, eof, reported, attempted, filesReported, entryObs >>
    /\ UNCHANGED sampleObs
    /\ history' = Kept(history, Append(history, Summary))
    /\ UNCHANGED << world, lines >>

\* ---------------------------------------------------------- enumeration
\* Lines 53-56: readdir returns "." or ".."; the entry is skipped.  A
\* directory holds both, each once, anywhere in the listing.
ReaddirPseudo ==
    /\ pc = "readdir"
    /\ dir.open
    /\ \E n \in {".", ".."} :
        /\ IF n = "." THEN ~dir.dot ELSE ~dir.dotdot
        /\ PseudoNow(n)
        /\ dir' = IF n = "." THEN [dir EXCEPT !.dot = TRUE]
                             ELSE [dir EXCEPT !.dotdot = TRUE]
        /\ entry' = n
    /\ ops' = ops \cup {"readdir"}
    /\ pc' = "readdir"
    /\ probes' = << >>
    /\ statRes' = NoStat
    /\ shown' = NoLine
    /\ UNCHANGED << iteration, count, files_read, i, st, fd, bytes, iterObs >>
    /\ UNCHANGED sampleObs
    /\ UNCHANGED replay

\* Lines 53-59: readdir returns a real entry; its path is built.
ReaddirEntry ==
    /\ pc = "readdir"
    /\ dir.open
    /\ dir.pos < MaxEntries
    /\ EntryNow
    /\ dir' = [dir EXCEPT !.pos = dir.pos + 1]
    /\ entry' = d_name(dir.pos + 1)
    /\ enumerated' = Append(enumerated, d_name(dir.pos + 1))
    /\ ops' = ops \cup {"readdir"}
    /\ pc' = "stat"
    /\ probes' = << >>
    /\ statRes' = NoStat
    /\ shown' = NoLine
    /\ UNCHANGED << iteration, count, files_read, i, st, fd, bytes, errLogged,
                    counted, classified, printed, closes, eof, reported,
                    attempted, filesReported, sleeps >>
    /\ UNCHANGED sampleObs
    /\ UNCHANGED replay

\* Line 53: readdir returns NULL; the while loop ends.
ReaddirEnd ==
    /\ pc = "readdir"
    /\ dir.open
    /\ dir.dot /\ dir.dotdot
    /\ EndNow
    /\ entry' = "NULL"
    /\ eof' = TRUE
    /\ ops' = ops \cup {"readdir"}
    /\ pc' = "closedir"
    /\ probes' = << >>
    /\ statRes' = NoStat
    /\ shown' = NoLine
    /\ UNCHANGED << iteration, count, files_read, i, st, dir, fd, bytes,
                    errLogged, enumerated, counted, classified, printed,
                    closes, reported, attempted, filesReported, sleeps >>
    /\ UNCHANGED sampleObs
    /\ UNCHANGED replay

\* Line 65: stat(path, &st) == 0; st holds the followed object's attributes.
StatOK ==
    /\ pc = "stat"
    /\ \E r \in StatAnswers \ {Fail} :
        /\ st' = r
        /\ statRes' = r
    /\ ops' = ops \cup {"stat"}
    /\ probes' = Append(probes, "stat")
    /\ classified' = Append(classified, entry)
    /\ pc' = "lstat"
    /\ UNCHANGED << iteration, count, files_read, i, dir, entry, fd, bytes,
                    errLogged, enumerated, counted, printed, closes, eof,
                    reported, attempted, filesReported, sleeps, shown >>
    /\ UNCHANGED sampleObs
    /\ UNCHANGED replay

\* A failed stat that still goes on to lstat and access.
StatFail_Probes ==
    /\ pc = "stat"
    /\ Fail \in StatAnswers
    /\ statRes' = Fail
    /\ ops' = ops \cup {"stat"}
    /\ probes' = Append(probes, "stat")
    /\ pc' = "lstat"
    /\ UNCHANGED << prog, iterObs, shown >>
    /\ UNCHANGED sampleObs
    /\ UNCHANGED replay

\* A failed stat that skips count++ with the rest of the body.
StatFail_NoCount ==
    /\ pc = "stat"
    /\ Fail \in StatAnswers
    /\ statRes' = Fail
    /\ ops' = ops \cup {"stat"}
    /\ probes' = Append(probes, "stat")
    /\ pc' = "readdir"
    /\ UNCHANGED << prog, iterObs, shown >>
    /\ UNCHANGED sampleObs
    /\ UNCHANGED replay

\* Line 65: stat fails; the body of the if (lines 66-81) is skipped and st
\* is left as it was.
StatFail ==
    /\ pc = "stat"
    /\ Fail \in StatAnswers
    /\ statRes' = Fail
    /\ ops' = ops \cup {"stat"}
    /\ probes' = Append(probes, "stat")
    /\ pc' = "count"
    /\ UNCHANGED << prog, iterObs, shown >>
    /\ UNCHANGED sampleObs
    /\ UNCHANGED replay

\* Line 67: lstat(path, &st); the return value is ignored.  On success st is
\* overwritten with the attributes of the path itself; on failure the kernel
\* leaves st as it was.
Lstat ==
    /\ pc = "lstat"
    /\ \E r \in LstatAnswers :
        st' = IF r = Fail THEN st ELSE r
    /\ ops' = ops \cup {"lstat"}
    /\ probes' = Append(probes, "lstat")
    /\ pc' = "access"
    /\ UNCHANGED << iteration, count, files_read, i, dir, entry, fd, bytes,
                    iterObs, statRes, shown >>
    /\ UNCHANGED sampleObs
    /\ UNCHANGED replay

\* Line 70: access(path, R_OK); the return value is ignored.
Access ==
    /\ pc = "access"
    /\ \E r \in {0, -1} : TRUE
    /\ ops' = ops \cup {AccessCall}
    /\ probes' = Append(probes, "access")
    /\ pc' = "print"
    /\ UNCHANGED << prog, iterObs, statRes, shown >>
    /\ UNCHANGED sampleObs
    /\ UNCHANGED replay

ShouldPrint_LessEq(c) == c <= PrintLimit
ShouldPrint_Four(c) == c < PrintLimit - 1
\* Line 72: if (count < 5).
ShouldPrint(c) == c < PrintLimit

\* Lines 72-81: the entry's line, from st as it is now.
PrintEntry ==
    /\ pc = "print"
    /\ IF ShouldPrint(count)
       THEN /\ printed' = Append(printed, entry)
            /\ shown' = [name |-> entry, kind |-> Kind(st.mode),
                         size |-> IF S_ISREG(st.mode) THEN st.size ELSE 0]
            /\ lines' = Kept(lines, Append(lines, shown'))
       ELSE UNCHANGED << printed, shown, lines >>
    /\ pc' = "count"
    /\ UNCHANGED << prog, ops, errLogged, enumerated, counted, classified,
                    closes, eof, reported, attempted, filesReported, sleeps,
                    probes, statRes >>
    /\ UNCHANGED sampleObs
    /\ UNCHANGED << world, history >>

\* Line 83: count++.
CountEntry ==
    /\ pc = "count"
    /\ count' = count + 1
    /\ counted' = Append(counted, entry)
    /\ pc' = "readdir"
    /\ UNCHANGED << iteration, files_read, i, st, dir, entry, fd, bytes, ops,
                    errLogged, enumerated, classified, printed, closes, eof,
                    reported, attempted, filesReported, sleeps, entryObs >>
    /\ UNCHANGED sampleObs
    /\ UNCHANGED replay

\* The loop left without closedir.
Closedir_Skipped ==
    /\ pc = "closedir"
    /\ pc' = "report"
    /\ UNCHANGED << prog, ops, iterObs, entryObs >>
    /\ UNCHANGED sampleObs
    /\ UNCHANGED replay

\* Line 85: closedir(dir).
Closedir ==
    /\ pc = "closedir"
    /\ dir' = NullDir
    /\ closes' = closes + 1
    /\ ops' = ops \cup {"closedir"}
    /\ pc' = "report"
    /\ UNCHANGED << iteration, count, files_read, i, st, entry, fd, bytes,
                    errLogged, enumerated, counted, classified, printed, eof,
                    reported, attempted, filesReported, sleeps, entryObs >>
    /\ UNCHANGED sampleObs
    /\ UNCHANGED replay

\* Line 86: the total is printed.
ReportEntries ==
    /\ pc = "report"
    /\ reported' = count
    /\ pc' = "s_init"
    /\ UNCHANGED << prog, ops, errLogged, enumerated, counted, classified,
                    printed, closes, eof, attempted, filesReported, sleeps,
                    entryObs >>
    /\ UNCHANGED sampleObs
    /\ UNCHANGED replay

\* ------------------------------------------------------------- sampling
\* Lines 89-105: the banner of phase [3]; files_read = 0; i = 0.  The
\* enumeration is over: what was classified and printed in it is no longer
\* observed.
SampleInit ==
    /\ pc = "s_init"
    /\ files_read' = 0
    /\ i' = 1
    /\ classified' = << >>
    /\ printed' = << >>
    /\ pc' = "s_open"
    /\ UNCHANGED << iteration, count, st, dir, entry, fd, bytes, ops,
                    errLogged, enumerated, counted, closes, eof, reported,
                    attempted, filesReported, sleeps, entryObs >>
    /\ UNCHANGED sampleObs
    /\ UNCHANGED replay

\* Lines 105-108: open(log_files[i], O_RDONLY) succeeds.
SampleOpenOK ==
    /\ pc = "s_open"
    /\ log_files[i] # "NULL"
    /\ TRUE \in OpenAnswers
    /\ ops' = ops \cup {OpenCall}
    /\ attempted' = Append(attempted, log_files[i])
    /\ fd' = 3
    /\ pc' = "s_read"
    /\ UNCHANGED << iteration, count, files_read, i, st, dir, entry, bytes,
                    errLogged, enumerated, counted, classified, printed,
                    closes, eof, reported, filesReported, sleeps, entryObs >>
    /\ opensOK' = opensOK + 1
    /\ fileCalls' = << << "open", 3 >> >>
    /\ UNCHANGED replay

\* A failed open that leaves the for loop.
SampleOpenFail_Break ==
    /\ pc = "s_open"
    /\ log_files[i] # "NULL"
    /\ FALSE \in OpenAnswers
    /\ ops' = ops \cup {OpenCall}
    /\ attempted' = Append(attempted, log_files[i])
    /\ fd' = -1
    /\ i' = Len(log_files)
    /\ pc' = "s_open"
    /\ UNCHANGED << iteration, count, files_read, st, dir, entry, bytes,
                    errLogged, enumerated, counted, classified, printed,
                    closes, eof, reported, filesReported, sleeps, entryObs >>
    /\ fileCalls' = << << "open", -1 >> >>
    /\ UNCHANGED opensOK
    /\ UNCHANGED replay

\* Lines 105-108, 115: open fails (fd < 0); the body is skipped.
SampleOpenFail ==
    /\ pc = "s_open"
    /\ log_files[i] # "NULL"
    /\ FALSE \in OpenAnswers
    /\ ops' = ops \cup {OpenCall}
    /\ attempted' = Append(attempted, log_files[i])
    /\ fd' = -1
    /\ pc' = "s_next"
    /\ UNCHANGED << iteration, count, files_read, i, st, dir, entry, bytes,
                    errLogged, enumerated, counted, classified, printed,
                    closes, eof, reported, filesReported, sleeps, entryObs >>
    /\ fileCalls' = << << "open", -1 >> >>
    /\ UNCHANGED opensOK
    /\ UNCHANGED replay

\* A read that is issued again after a short read.
SampleRead_Retry ==
    /\ pc = "s_read"
    /\ \E r \in ReadAnswers :
        /\ bytes' = r
        /\ pc' = IF r > 0 /\ r < BufSize THEN "s_read" ELSE "s_close"
    /\ ops' = ops \cup {"read"}
    /\ UNCHANGED << iteration, count, files_read, i, st, dir, entry, fd,
                    iterObs, entryObs >>
    /\ fileCalls' = Append(fileCalls, << "read", BufSize >>)
    /\ UNCHANGED opensOK
    /\ UNCHANGED replay

\* Line 111: one read of up to sizeof(buf) bytes.
SampleRead ==
    /\ pc = "s_read"
    /\ \E r \in ReadAnswers : bytes' = r
    /\ ops' = ops \cup {"read"}
    /\ pc' = "s_close"
    /\ UNCHANGED << iteration, count, files_read, i, st, dir, entry, fd,
                    iterObs, entryObs >>
    /\ fileCalls' = Append(fileCalls, << "read", BufSize >>)
    /\ UNCHANGED opensOK
    /\ UNCHANGED replay

\* The descriptor is left open.
SampleClose_Skipped ==
    /\ pc = "s_close"
    /\ pc' = "s_print"
    /\ UNCHANGED << prog, ops, iterObs, entryObs, sampleObs >>
    /\ UNCHANGED replay

\* Line 112: close(fd).  The variable keeps its value; the descriptor is
\* closed, which fd = -1 stands for here.
SampleClose ==
    /\ pc = "s_close"
    /\ fd' = -1
    /\ ops' = ops \cup {"close"}
    /\ pc' = "s_print"
    /\ UNCHANGED << iteration, count, files_read, i, st, dir, entry, bytes,
                    iterObs, entryObs >>
    /\ fileCalls' = Append(fileCalls, << "close", fd >>)
    /\ UNCHANGED opensOK
    /\ UNCHANGED replay

\* A file is counted only when its read returned data.
SamplePrint_OnlyData ==
    /\ pc = "s_print"
    /\ files_read' = IF bytes > 0 THEN files_read + 1 ELSE files_read
    /\ pc' = "s_next"
    /\ UNCHANGED << iteration, count, i, st, dir, entry, fd, bytes, ops,
                    iterObs, entryObs, sampleObs >>
    /\ UNCHANGED replay

\* Lines 113-114: the bytes line; files_read++.
SamplePrint ==
    /\ pc = "s_print"
    /\ files_read' = files_read + 1
    /\ pc' = "s_next"
    /\ UNCHANGED << iteration, count, i, st, dir, entry, fd, bytes, ops,
                    iterObs, entryObs >>
    /\ UNCHANGED sampleObs
    /\ UNCHANGED replay

\* Line 105: i++; fd and bytes go out of scope.
SampleNext ==
    /\ pc = "s_next"
    /\ i' = i + 1
    /\ bytes' = -2
    /\ pc' = "s_open"
    /\ UNCHANGED << iteration, count, files_read, st, dir, entry, fd, ops,
                    iterObs, entryObs >>
    /\ fileCalls' = << >>
    /\ UNCHANGED opensOK
    /\ UNCHANGED replay

\* Lines 105, 117-120: log_files[i] is NULL; the count of files is printed.
SampleDone ==
    /\ pc = "s_open"
    /\ log_files[i] = "NULL"
    /\ filesReported' = files_read
    /\ pc' = "sleep"
    /\ UNCHANGED << prog, ops, errLogged, enumerated, counted, classified,
                    printed, closes, eof, reported, attempted, sleeps,
                    entryObs >>
    /\ UNCHANGED sampleObs
    /\ UNCHANGED replay

\* Lines 122-123: sleep(10); the loop body ends, so files_read and i, which
\* are declared inside it (lines 104-105), go out of scope; back to the head
\* of while (1).
Sleep ==
    /\ pc = "sleep"
    /\ sleeps' = sleeps + 1
    /\ files_read' = 0
    /\ i' = 0
    /\ pc' = "top"
    /\ UNCHANGED << iteration, count, st, dir, entry, fd, bytes, ops,
                    errLogged, enumerated, counted, classified, printed,
                    closes, eof, reported, attempted, filesReported, entryObs >>
    /\ UNCHANGED sampleObs
    /\ history' = Kept(history, Append(history, Summary))
    /\ UNCHANGED << world, lines >>

Next ==
    \/ LoopTop
    \/ OpendirOK
    \/ OpendirFail
    \/ SleepErr
    \/ ReaddirPseudo
    \/ ReaddirEntry
    \/ ReaddirEnd
    \/ StatOK
    \/ StatFail
    \/ Lstat
    \/ Access
    \/ PrintEntry
    \/ CountEntry
    \/ Closedir
    \/ ReportEntries
    \/ SampleInit
    \/ SampleOpenOK
    \/ SampleOpenFail
    \/ SampleRead
    \/ SampleClose
    \/ SamplePrint
    \/ SampleNext
    \/ SampleDone
    \/ Sleep

Spec == Init /\ [][Next]_vars

\* The program is the only thread and every call it makes returns (a
\* directory listing is finite, sleep(10) ends), so it always takes its next
\* step.
FairSpec == Spec /\ WF_vars(Next)

\* The scanner over a filesystem that does not change.
SpecStatic == InitStatic /\ [][Next]_vars

\* ================================================================ claims
Min(a, b) == IF a < b THEN a ELSE b
\* The calls that only read (claim C1's list).
ReadOnlyOps ==
    { "opendir", "readdir", "closedir", "stat", "lstat", "access(R_OK)",
      "open(O_RDONLY)", "read", "close" }
EnumPcs == {"readdir", "stat", "lstat", "access", "print", "count", "closedir"}
SamplePcs == {"s_init", "s_open", "s_read", "s_close", "s_print", "s_next"}
\* Position of a name in this iteration's enumeration order.
Pos(n) == CHOOSE k \in 1..Len(enumerated) : enumerated[k] = n

\* C1: every filesystem call the scanner issues, in every iteration and
\* whatever the calls answer, is one of the read-only calls; none writes,
\* creates, deletes or modifies.
C1_OnlyReadOnlyCalls == ops \subseteq ReadOnlyOps
\* An iteration in which every kind of call was issued.
C1_Witness == pc = "sleep" /\ ops = ReadOnlyOps

\* C2 as stated: when a real entry is about to be counted, stat, lstat and
\* access have all been attempted for it, in that order, also when stat
\* failed.
C2_AllThreeAlways == pc = "count" => probes = << "stat", "lstat", "access" >>
\* C2 amended: stat is attempted first for every real entry; when it
\* succeeds, lstat and then access are attempted (whatever lstat answers);
\* when it fails, neither is attempted.
C2_ProbeOrder ==
    /\ \E k \in 0..3 : probes = SubSeq(<< "stat", "lstat", "access" >>, 1, k)
    /\ pc = "count" =>
        IF statRes = Fail
        THEN probes = << "stat" >>
        ELSE probes = << "stat", "lstat", "access" >>
\* An entry whose stat failed, after one whose stat succeeded.
C2_Witness ==
    /\ pc = "count"
    /\ statRes = Fail
    /\ probes = << "stat" >>
    /\ classified # << >>

\* C3: the kind printed for an entry is the kind of what stat() (the
\* symlink-following query) answered for it.
C3_KindFromStat == shown # NoLine => shown.kind = Kind(statRes.mode)

\* C4: the size printed for an entry shown as a regular file is
\* non-negative and is the size stat() answered for it.
C4_SizeFromStat ==
    (shown # NoLine /\ shown.kind = "file") =>
        (shown.size >= 0 /\ shown.size = statRes.size)

\* C5: in an iteration whose opendir failed, the error is logged, the only
\* filesystem call issued is that opendir (nothing is enumerated, probed,
\* closed, opened or read), the scanner is at the sleep of line 45 or has
\* slept exactly once and is at the loop head, where the next iteration can
\* begin.
C5_OpenFailureSkipsIteration ==
    errLogged =>
        /\ ops = {"opendir"}
        /\ enumerated = << >> /\ counted = << >> /\ attempted = << >>
        /\ closes = 0 /\ reported = -1 /\ filesReported = -1
        /\ ~dir.open /\ fd = -1
        /\ \/ pc = "sleep_err" /\ sleeps = 0
           \/ pc = "top" /\ sleeps = 1
        /\ (pc = "top" /\ iteration < MaxIter) => ENABLED LoopTop
\* A second iteration that failed to open the directory and has slept.
C5_Witness == errLogged /\ pc = "top" /\ sleeps = 1 /\ iteration = 2

\* C6: the total printed on line 86 is the number of real entries readdir
\* returned; each was counted exactly once, in order, whether or not its
\* stat succeeded, and "." and ".." were not counted.
C6_TotalIsRealEntries ==
    /\ \A k \in 1..Len(counted) : counted[k] \notin {".", ".."}
    /\ pc \in EnumPcs => count = Len(counted)
    /\ reported # -1 => (reported = Len(enumerated) /\ counted = enumerated)
\* Two entries reported, one of which failed its probe.
C6_Witness ==
    /\ pc = "s_init"
    /\ reported = 2
    /\ Len(enumerated) = 2
    /\ Len(classified) = 1

\* C7: at most 5 entries are printed in an iteration.
C7_AtMostFivePrinted == Len(printed) <= 5
\* Five printed out of a directory with more entries.
C7_Witness == pc = "report" /\ Len(printed) = 5 /\ Len(enumerated) > 5

\* C8 as stated: at the end of the enumeration the printed entries are the
\* first 5 entries whose stat succeeded (all of them if fewer).
C8_FirstFiveClassified ==
    pc = "report" =>
        printed = SubSeq(classified, 1, Min(5, Len(classified)))
\* C8 amended: the printed entries are the entries among the first 5 real
\* entries of the enumeration whose stat succeeded, in enumeration order; a
\* failed probe among the first 5 uses up its place.
C8_ClassifiedAmongFirstFive ==
    pc \notin {"lstat", "access", "print"} =>
        printed = SelectSeq(classified, LAMBDA n : Pos(n) <= 5)
\* Five entries classified, only four of them printed.
C8_Witness ==
    /\ pc = "report"
    /\ Len(classified) = 5
    /\ Len(printed) = 4

\* C9: in an iteration that opened the directory, closedir is called
\* exactly once, after readdir returned NULL and before the first open of a
\* sample file.
C9_ClosedOnceBeforeSampling ==
    /\ closes <= 1
    /\ dir.open => closes = 0
    /\ closes = 1 => (eof /\ ~dir.open)
    /\ attempted # << >> => closes = 1
    /\ pc \in SamplePcs \cup {"report", "sleep"} => closes = 1
    /\ (pc = "top" /\ iteration > 0 /\ ~errLogged) => closes = 1
\* The sampling phase is about to start after an enumeration with a failed
\* probe; the handle has been closed.
C9_Witness ==
    /\ pc = "s_init"
    /\ attempted = << >>
    /\ closes = 1
    /\ Len(classified) < count

\* C10: open is attempted on the 10 sample paths in list order, each once;
\* a failed open does not stop the loop.
C10_AllSamplesAttempted ==
    /\ attempted = SubSeq(log_files, 1, Len(attempted))
    /\ Len(attempted) <= 10
    /\ pc = "s_open" => Len(attempted) = i - 1
    /\ (pc = "sleep" \/ filesReported # -1) =>
        attempted = SubSeq(log_files, 1, 10)
\* All 10 attempted although 9 of the opens failed.
C10_Witness ==
    /\ filesReported = 1
    /\ Len(attempted) = 10

\* C11: the scanner never reaches the return of line 125 or any other end:
\* whatever opendir, stat, lstat, open and read answer, it has a next step
\* (except where the exploration of iterations stops).
C11_NeverReturns ==
    /\ pc # "returned"
    /\ (pc # "top" \/ iteration < MaxIter) => ENABLED Next
\* In the second iteration nine opens have failed and a read has failed;
\* the scanner goes on.
C11_Witness ==
    /\ iteration = 2
    /\ pc = "s_print"
    /\ i = 10
    /\ files_read = 0
    /\ bytes = -1

\* C12: between the start of an iteration and the start of the next there
\* is exactly one sleep, on the failed-open path and on the normal path, and
\* every iteration is eventually followed by the next one.
C12_OneSleepThenNext ==
    /\ [](sleeps <= 1)
    /\ [](pc # "top" => sleeps = 0)
    /\ []((pc = "top" /\ iteration >= 1) => sleeps = 1)
    /\ [][(iteration' # iteration /\ iteration >= 1) => sleeps = 1]_vars
    /\ \A n \in 1..(MaxIter - 1) : (iteration = n) ~> (iteration = n + 1)
\* The second iteration has started.
C12_Witness == iteration = 2 /\ pc = "opendir" /\ sleeps = 0

\* The calls of a sample path whose open succeeded.
FullCalls == << << "open", 3 >>, << "read", 1024 >>, << "close", 3 >> >>
FailedOpen == << << "open", -1 >> >>
Range(s) == {s[k] : k \in 1..Len(s)}

\* C14: a sample path whose open succeeded gets exactly one read, asking
\* for 1024 bytes, then exactly one close of its descriptor, whatever the
\* read returned; a path whose open failed gets neither.
C14_OneReadOneClose ==
    /\ \/ fileCalls = FailedOpen
       \/ \E k \in 0..3 : fileCalls = SubSeq(FullCalls, 1, k)
    /\ pc = "s_print" => fileCalls = FullCalls
    /\ pc = "s_next" => (fileCalls = FailedOpen \/ fileCalls = FullCalls)
\* A short read followed by the close and no second read.
C14_Witness ==
    /\ pc = "s_next"
    /\ bytes = 1
    /\ fileCalls = FullCalls

\* C15: the number printed on line 117 is the number of opens that
\* succeeded in the iteration, between 0 and 10, whatever the reads returned.
C15_ReportedIsOpened ==
    /\ opensOK \in 0..10
    /\ pc \in {"s_open", "s_next", "sleep"} => files_read = opensOK
    /\ filesReported # -1 => filesReported = opensOK
\* The last path was opened and its read failed; it is the one file counted.
C15_Witness ==
    /\ pc = "s_next"
    /\ i = 10
    /\ bytes = -1
    /\ opensOK = 1
    /\ files_read = 1

\* C16: an entry whose stat failed is not classified and not printed, is
\* counted, and readdir is called for the next entry.
C16_FailedProbeCounted ==
    statRes = Fail =>
        /\ shown = NoLine
        /\ entry \notin Range(printed)
        /\ entry \notin Range(classified)
        /\ pc \in {"count", "readdir"}
        /\ pc = "count" => (ENABLED CountEntry /\ entry \notin Range(counted))
        /\ pc = "readdir" =>
            /\ counted # << >> /\ counted[Len(counted)] = entry
            /\ count = Len(counted)
            /\ dir.open
            /\ ENABLED (ReaddirPseudo \/ ReaddirEntry \/ ReaddirEnd)
\* The first entry failed and was counted; the second is being probed.
C16_Witness ==
    /\ pc = "lstat"
    /\ enumerated = << "e1", "e2" >>
    /\ counted = << "e1" >>
    /\ classified = << "e2" >>

\* C17: the counter is 0 only before the first iteration, every iteration
\* starts by adding exactly 1 to it, also after an iteration whose opendir
\* failed, and no other step changes it.
C17_IterationCounter ==
    /\ [](iteration = 0 => pc = "top")
    /\ [](pc # "top" => iteration >= 1)
    /\ [][iteration' = iteration
            \/ (iteration' = iteration + 1 /\ pc = "top" /\ pc' = "opendir")]_vars
    /\ [][pc' = "opendir" => iteration' = iteration + 1]_vars
\* The second iteration failed to open the directory and is numbered 2.
C17_Witness == pc = "sleep_err" /\ iteration = 2

\* C18: at both sleeps and at the loop head neither the directory handle
\* nor a file descriptor is open, and the two are never open together.
C18_HandlesScoped ==
    /\ pc \in {"sleep", "sleep_err", "top"} => (~dir.open /\ fd = -1)
    /\ ~(dir.open /\ fd # -1)
\* The sleep after an iteration that listed entries and opened all files.
C18_Witness ==
    /\ pc = "sleep"
    /\ reported > 0
    /\ filesReported = 10
    /\ ~dir.open
    /\ fd = -1

\* C19: the byte count printed for a file that is counted as read is
\* between 0 and 1024.
C19_BytesInRange ==
    (pc = "s_next" /\ bytes # -2) => (bytes >= 0 /\ bytes <= 1024)

\* C13: over a filesystem that does not change, every iteration reports
\* what the iteration before it reported: the same printed lines (name,
\* kind, size), the same total of entries and the same count of files.
C13_IterationsAgree ==
    \A k \in 1..(Len(history) - 1) : history[k] = history[k + 1]
\* Two iterations over six entries, one of the first five failing its
\* probe, with only /var/log/messages present.
C13_Witness ==
    /\ Len(history) = 2
    /\ history[2].entries = 6
    /\ Len(history[2].lines) = 4
    /\ history[2].files = 1

====
